---- MODULE Spec2Model ----
(***************************************************************************)
(* Sedov-Taylor supernova remnant simulation: SupernovaModel (particle     *)
(* ensemble and shock laws), DataManager (radial / angular histograms and  *)
(* bounded time series) and SupernovaSimulation (play / pause / reset      *)
(* driver with its setTimeout loop).                                       *)
(*                                                                         *)
(* Numbers are IEEE doubles in the program.  The model keeps them on       *)
(* integer grids and keeps the one non-finite value the code produces,     *)
(* NaN, as a distinguished value that every arithmetic operator            *)
(* propagates the way the double operations do:                            *)
(*   time              years                                               *)
(*   xi                1/XiScale                                           *)
(*   theta, phi        pi/PiU radians                                      *)
(*   shock radius      0.1 pc                                              *)
(*   shock velocity    km/s                                                *)
(*   temperature       (3/16)*mu*1e10/k_B kelvin                           *)
(*   energy, density   1e51 erg, 1e-24 g/cm^3                              *)
(*   massFrac          1/MassFracScale                                     *)
(* Fields no checked property reads (mass, A, color, diffusionCoeff,       *)
(* vx/vy/vz, temperature and density of a particle, radius / angle /       *)
(* density labels of a bin) are left out.                                  *)
(***************************************************************************)
EXTENDS Integers, Sequences, FiniteSets, TLC

VARIABLES model, data, threw, calls, ops, isRunning, animationSpeed, timers, twin

vars == <<model, data, threw, calls, ops, isRunning, animationSpeed, timers, twin>>

-----------------------------------------------------------------------------
(* Bounds of the model *)

MaxOps == 2
MaxTimers == 2
PiU == 42
XiScale == 100
MassFracScale == 10000
DiffMax == 60
RadiusMax == 60

(* Program constants *)

totalParticles == 2000
DefaultEnergy == 1
DefaultDensity == 1
RadialBins == 50
AngularBins == 36
maxHistory == 100
timeStep == 100
RadiusCoeff == 716
VelocityCoeff == 39113
JitterMilli == 75
PiMilli == 3142

-----------------------------------------------------------------------------
(* IEEE arithmetic with NaN *)

NaN == -999999

IsNaN(x) == x = NaN

FAdd(a, b) == IF IsNaN(a) \/ IsNaN(b) THEN NaN ELSE a + b

FMul(a, b) == IF IsNaN(a) \/ IsNaN(b) THEN NaN ELSE a * b

Min(a, b) == IF a < b THEN a ELSE b

\* Math.min(1.0, Math.max(0, x)): both return NaN when x is NaN
Clamp01(x) == IF IsNaN(x) THEN NaN ELSE IF x < 0 THEN 0 ELSE IF x > XiScale THEN XiScale ELSE x

Pow5(r) == r * r * r * r * r

\* x^(1/5), rounded down to the grid
Root5(x) == CHOOSE r \in 0..RadiusMax : Pow5(r) <= x /\ (r = RadiusMax \/ x < Pow5(r + 1))

-----------------------------------------------------------------------------
(* SupernovaModel: shock laws *)

\* factor * t_sec^0.4 / 3.086e18; Math.pow of a negative base with a
\* fractional exponent is NaN, Math.pow(0, 0.4) is 0
getShockRadius(m) ==
  IF (m.energy < 0) # (m.density < 0) THEN NaN
  ELSE IF m.time < 0 THEN NaN
  ELSE LET e == IF m.energy < 0 THEN 0 - m.energy ELSE m.energy
           d == IF m.density < 0 THEN 0 - m.density ELSE m.density
       IN  Root5((RadiusCoeff * e * m.time * m.time) \div d)

\* 0.4 * R_cm / t_sec / 1e5, with no guard on t_sec = 0: 0/0 is NaN
getShockVelocity(m) ==
  LET R_pc == getShockRadius(m)
  IN  IF IsNaN(R_pc) THEN NaN
      ELSE IF m.time = 0 THEN NaN
      ELSE (VelocityCoeff * R_pc) \div m.time

getShockTemperature(m) ==
  LET v_shock == getShockVelocity(m)
  IN  FMul(v_shock, v_shock)

getState(m) ==
  [time |-> m.time, radius |-> getShockRadius(m),
   velocity |-> getShockVelocity(m), temperature |-> getShockTemperature(m)]

\* velocityProfile(xi), in thousandths
velocityProfile(xi) ==
  IF IsNaN(xi) THEN NaN
  ELSE IF 10 * xi < 8 * XiScale
       THEN 1000 - (1200 * xi) \div XiScale + (800 * xi * xi) \div (XiScale * XiScale)
       ELSE (2500 * (XiScale - xi)) \div XiScale

-----------------------------------------------------------------------------
(* SupernovaModel: construction *)

\* Math.floor(totalParticles * elem.massFrac)
nParticles(elem) == (totalParticles * elem.massFrac) \div MassFracScale

NextParticleIdStuck(particleId) == particleId

\* particleId++
NextParticleId(particleId) == particleId + 1

\* the record pushed for one particle; x = y = z = 0 is r = 0, moved = FALSE
NewParticle(particleId, elem, d) ==
  [id |-> particleId, element |-> elem.name,
   xi |-> d.xi, theta |-> d.theta, phi |-> d.phi,
   r |-> 0, moved |-> FALSE]

\* the inner for loop of initializeParticles for one species
RECURSIVE PushParticles(_, _, _, _)
PushParticles(st, elem, i, draws) ==
  IF i >= nParticles(elem) THEN st
  ELSE PushParticles(
         [particles |-> Append(st.particles,
                               NewParticle(st.particleId, elem, draws[Len(st.particles) + 1])),
          particleId |-> NextParticleId(st.particleId)],
         elem, i + 1, draws)

\* this.elements.forEach(...)
RECURSIVE ForEachElement(_, _, _, _)
ForEachElement(st, elements, k, draws) ==
  IF k > Len(elements) THEN st
  ELSE ForEachElement(PushParticles(st, elements[k], 0, draws), elements, k + 1, draws)

initializeParticles(elements, draws) ==
  ForEachElement([particles |-> <<>>, particleId |-> 0], elements, 1, draws).particles

\* config.energy || 1e51: a missing or zero field (written 0) is falsy
OrDefault(v, dflt) == IF v = 0 THEN dflt ELSE v

NewModel(config, draws) ==
  [energy |-> OrDefault(config.energy, DefaultEnergy),
   density |-> OrDefault(config.density, DefaultDensity),
   time |-> 0,
   elements |-> config.elements,
   particles |-> initializeParticles(config.elements, draws)]

RECURSIVE SumParticles(_, _)
SumParticles(elements, k) ==
  IF k > Len(elements) THEN 0 ELSE nParticles(elements[k]) + SumParticles(elements, k + 1)

-----------------------------------------------------------------------------
(* SupernovaModel.update(dt) *)

\* if (p.phi < 0) p.phi = -p.phi; if (p.phi > Math.PI) p.phi = 2*Math.PI - p.phi
ReflectPhi(phi) ==
  LET a == IF phi < 0 THEN 0 - phi ELSE phi
  IN  IF a > PiU THEN 2 * PiU - a ELSE a

\* radialStep / R_shock_cm on the xi grid.  v_radial * dt_sec / R_shock_cm is
\* 0.4 * v_factor * dt / time; diffusionDist = Math.sqrt(2 * D * dt_sec) is
\* NaN for dt < 0 and 0 for dt = 0; diff is diffusionDist * cos(diffPhi) /
\* R_shock_cm, a random draw
DeltaXi(xi, dt, diff, time, R_pc, v_shock) ==
  LET v_factor == velocityProfile(xi)
      v_radial == FMul(v_shock, v_factor)
  IN  IF IsNaN(v_radial) \/ IsNaN(R_pc) THEN NaN
      ELSE IF dt < 0 THEN NaN
      ELSE IF dt = 0 THEN 0
      ELSE (4 * v_factor * dt * XiScale) \div (10000 * time) + diff

\* the body of this.particles.forEach(p => ...) for one particle; d holds the
\* particle's three random draws.  x, y, z are r_pc times the unit vector of
\* (phi, theta): the model keeps r_pc (on the grid of xi times the radius)
UpdateParticle(p, d, dt, time, R_pc, v_shock) ==
  LET xi2 == Clamp01(FAdd(p.xi, DeltaXi(p.xi, dt, d.diff, time, R_pc, v_shock)))
  IN  [p EXCEPT !.xi = xi2,
                !.theta = p.theta + d.jt,
                !.phi = ReflectPhi(p.phi + d.jp),
                !.r = FMul(xi2, R_pc),
                !.moved = TRUE]

update(m, dt, draws) ==
  LET m1 == [m EXCEPT !.time = m.time + dt]
      R_pc == getShockRadius(m1)
      v_shock == getShockVelocity(m1)
  IN  [m1 EXCEPT !.particles =
         [i \in 1..Len(m.particles) |->
            UpdateParticle(m.particles[i], draws[i], dt, m1.time, R_pc, v_shock)]]

-----------------------------------------------------------------------------
(* DataManager *)

NewData == [linked |-> FALSE, radialDist |-> <<>>, angularDist |-> <<>>, timeSeries |-> <<>>]

\* this.data.particles: [] until the first update(), then the model's own array
dataParticles(d, m) == IF d.linked THEN m.particles ELSE <<>>

\* Math.min(bins-1, Math.floor((r / maxRadius) * bins)), r = sqrt(x^2+y^2+z^2)
RadialBinIdx(p, maxRadius) ==
  IF IsNaN(p.r) \/ IsNaN(maxRadius) THEN NaN
  ELSE IF maxRadius = 0 THEN (IF p.r = 0 THEN NaN ELSE RadialBins - 1)
  ELSE Min(RadialBins - 1, (p.r * RadialBins) \div (maxRadius * XiScale))

\* hist[binIdx].count++ throws a TypeError when hist[binIdx] is undefined
RadialThrows(ps, maxRadius) ==
  \E i \in 1..Len(ps) : RadialBinIdx(ps[i], maxRadius) \notin 0..(RadialBins - 1)

RadialHist(ps, maxRadius) ==
  [b \in 1..RadialBins |->
     Cardinality({i \in 1..Len(ps) : RadialBinIdx(ps[i], maxRadius) = b - 1})]

\* signs of Math.cos(theta) and Math.sin(theta); no double has cosine 0, and
\* the doubles nearest pi/2 and pi have a positive cosine and sine
CosPositive(theta) ==
  LET t == theta % (2 * PiU)
  IN  2 * t <= PiU \/ 2 * t > 3 * PiU

SinNegative(theta) == (theta % (2 * PiU)) > PiU

\* Math.atan2(p.y, p.x) on the angle grid, in -PiU..PiU, for x = r_pc *
\* sinPhi * cosTheta and y = r_pc * sinPhi * sinTheta.  With a non-zero radius
\* and a non-zero sin(phi) (Math.sin is 0 at phi = 0 only) it is theta reduced
\* to (-pi, pi]; otherwise x and y are signed zeros and atan2 is 0, pi or -pi
\* by their signs.  Before the first update x = y = +0 and atan2 is 0
Atan2(p) ==
  IF ~p.moved THEN 0
  ELSE IF IsNaN(p.r) THEN NaN
  ELSE IF p.r > 0 /\ p.phi > 0
       THEN LET t == (p.theta + PiU) % (2 * PiU)
            IN  IF t = 0 THEN PiU ELSE t - PiU
       ELSE IF CosPositive(p.theta) THEN 0
            ELSE IF SinNegative(p.theta) THEN 0 - PiU ELSE PiU

\* Math.floor(((Math.atan2(p.y, p.x) + Math.PI) / (2*Math.PI)) * bins)
AngularBinIdx(p) ==
  LET a == Atan2(p)
  IN  IF IsNaN(a) THEN NaN ELSE ((a + PiU) * AngularBins) \div (2 * PiU)

\* hist[binIdx]++ on a JS array of numbers: an index equal to the length
\* creates a new element undefined + 1 = NaN; the key NaN leaves the array alone
HistInc(hist, binIdx) ==
  IF IsNaN(binIdx) THEN hist
  ELSE IF binIdx + 1 \in 1..Len(hist) THEN [hist EXCEPT ![binIdx + 1] = FAdd(@, 1)]
  ELSE Append(hist, NaN)

RECURSIVE AngularHist(_, _, _)
AngularHist(hist, ps, i) ==
  IF i > Len(ps) THEN hist
  ELSE AngularHist(HistInc(hist, AngularBinIdx(ps[i])), ps, i + 1)

\* push one sample, then shift() when the length exceeds maxHistory
PushSample(timeSeries, sample) ==
  LET pushed == Append(timeSeries, sample)
  IN  IF Len(pushed) > maxHistory THEN Tail(pushed) ELSE pushed

Sample(m, ps) ==
  LET state == getState(m)
  IN  [time |-> state.time, radius |-> state.radius, velocity |-> state.velocity,
       temperature |-> state.temperature, particleCount |-> Len(ps)]

\* DataManager.update(): the new data and whether the call threw.  A throw in
\* updateRadialDistribution leaves everything but data.particles as it was
DataUpdate(d, m) ==
  LET ps == m.particles
      maxRadius == getShockRadius(m)
  IN  IF RadialThrows(ps, maxRadius)
      THEN [data |-> [d EXCEPT !.linked = TRUE], threw |-> TRUE]
      ELSE [data |-> [linked |-> TRUE,
                      radialDist |-> RadialHist(ps, maxRadius),
                      angularDist |-> AngularHist([b \in 1..AngularBins |-> 0], ps, 1),
                      timeSeries |-> PushSample(d.timeSeries, Sample(m, ps))],
            threw |-> FALSE]

-----------------------------------------------------------------------------
(* Inputs *)

Fe == [name |-> "Fe", massFrac |-> 7]

\* new SupernovaModel(): every field missing.  The default species list is
\* cut down to the model's ensemble size
DriverConfig == [energy |-> 0, density |-> 0, elements |-> <<Fe>>]

Configs == [energy : {-1, 0, 1}, density : {-1, 1}, elements : {<<Fe>>}]

\* update(dt) takes any number: dt is not validated
DtValues == {-100, 0, 100, 200}

\* Math.floor of the jitter bound 0.075 rad on the angle grid
JitterMax == (JitterMilli * PiU) \div PiMilli

\* |d3.randomNormal(0, 0.1)()| * 0.1, Math.random() * 2 * Math.PI and
\* Math.acos(Math.random() * 2 - 1), which is in (0, pi]
InitDrawSet == [xi : {0, 5}, theta : {0, PiU - 1}, phi : {1, PiU}]

\* per particle: the projected diffusion step over the shock radius (its
\* size follows the species' D0, any positive number) and the two jitters
StepDrawSet == [diff : {0 - DiffMax, 0, DiffMax}, jt : (0 - JitterMax)..JitterMax,
                jp : (0 - JitterMax)..JitterMax]

InitDraws(config) == [1..SumParticles(config.elements, 1) -> InitDrawSet]

StepDraws(m) == [1..Len(m.particles) -> StepDrawSet]

-----------------------------------------------------------------------------
(* The library driven step by step *)

Init ==
  /\ \E config \in Configs : \E draws \in InitDraws(config) : model = NewModel(config, draws)
  /\ data = NewData
  /\ threw = FALSE
  /\ calls = <<>>
  /\ ops = 0
  /\ isRunning = FALSE
  /\ animationSpeed = 1
  /\ timers = 0
  /\ twin = [model |-> model, data |-> data]

\* this.model.update(dt); this.dataManager.update()
StepBody(dt, draws) ==
  LET m2 == update(model, dt, draws)
      res == DataUpdate(data, m2)
  IN  /\ model' = m2
      /\ data' = res.data
      /\ threw' = res.threw
      /\ calls' = Append(calls, m2.time)

Step(dt, draws) ==
  /\ ops < MaxOps
  /\ StepBody(dt, draws)
  /\ ops' = ops + 1
  /\ UNCHANGED <<isRunning, animationSpeed, timers, twin>>

\* new SupernovaModel(config); new DataManager(model)
Construct(config, draws) ==
  /\ ops < MaxOps
  /\ model' = NewModel(config, draws)
  /\ data' = NewData
  /\ threw' = FALSE
  /\ calls' = <<>>
  /\ ops' = ops + 1
  /\ UNCHANGED <<isRunning, animationSpeed, timers, twin>>

Next ==
  \/ \E dt \in DtValues : \E draws \in StepDraws(model) : Step(dt, draws)
  \/ \E config \in Configs : \E draws \in InitDraws(config) : Construct(config, draws)

Spec == Init /\ [][Next]_vars

-----------------------------------------------------------------------------
(* Ensembles of several species, with a thinned sample of the random draws *)

C == [name |-> "C", massFrac |-> 12]

Si == [name |-> "Si", massFrac |-> 4]

EnsembleConfigs == [energy : {1}, density : {1}, elements : {<<Fe, C>>, <<Si, Fe, C>>}]

CoarseInitDrawSet == [xi : {5}, theta : {PiU - 1}, phi : {1}]

CoarseDrawSet == [diff : {0 - DiffMax, DiffMax}, jt : {JitterMax}, jp : {0 - JitterMax}]

CoarseInitDraws(config) == [1..SumParticles(config.elements, 1) -> CoarseInitDrawSet]

CoarseDraws(m) == [1..Len(m.particles) -> CoarseDrawSet]

InitEnsemble ==
  /\ \E config \in EnsembleConfigs : \E draws \in CoarseInitDraws(config) :
       model = NewModel(config, draws)
  /\ data = NewData
  /\ threw = FALSE
  /\ calls = <<>>
  /\ ops = 0
  /\ isRunning = FALSE
  /\ animationSpeed = 1
  /\ timers = 0
  /\ twin = [model |-> model, data |-> data]

NextEnsemble ==
  \/ \E dt \in DtValues : \E draws \in CoarseDraws(model) : Step(dt, draws)
  \/ \E config \in EnsembleConfigs : \E draws \in CoarseInitDraws(config) :
       Construct(config, draws)

SpecEnsemble == InitEnsemble /\ [][NextEnsemble]_vars

-----------------------------------------------------------------------------
(* A long run with dt > 0, past the cap of the time series *)

HistoryDt == 10

InitHistory ==
  /\ \E draws \in CoarseInitDraws(DriverConfig) : model = NewModel(DriverConfig, draws)
  /\ data = NewData
  /\ threw = FALSE
  /\ calls = <<>>
  /\ ops = 0
  /\ isRunning = FALSE
  /\ animationSpeed = 1
  /\ timers = 0
  /\ twin = [model |-> model, data |-> data]

HistoryStep(draws) ==
  /\ Len(calls) < maxHistory + MaxOps
  /\ StepBody(HistoryDt, draws)
  /\ UNCHANGED <<ops, isRunning, animationSpeed, timers, twin>>

NextHistory == \E draws \in CoarseDraws(model) : HistoryStep(draws)

SpecHistory == InitHistory /\ [][NextHistory]_vars

-----------------------------------------------------------------------------
(* Two runs side by side: same configuration, same dt at every step, each  *)
(* with its own Math.random / d3.randomNormal draws                        *)

InitTwin ==
  /\ \E config \in Configs : \E draws \in InitDraws(config) : \E draws2 \in InitDraws(config) :
       /\ model = NewModel(config, draws)
       /\ twin = [model |-> NewModel(config, draws2), data |-> NewData]
  /\ data = NewData
  /\ threw = FALSE
  /\ calls = <<>>
  /\ ops = 0
  /\ isRunning = FALSE
  /\ animationSpeed = 1
  /\ timers = 0

TwinStep(dt, draws, draws2) ==
  /\ ops < MaxOps
  /\ StepBody(dt, draws)
  /\ LET m2 == update(twin.model, dt, draws2)
     IN  twin' = [model |-> m2, data |-> DataUpdate(twin.data, m2).data]
  /\ ops' = ops + 1
  /\ UNCHANGED <<isRunning, animationSpeed, timers>>

NextTwin ==
  \E dt \in DtValues : \E draws \in CoarseDraws(model) : \E draws2 \in CoarseDraws(twin.model) :
    TwinStep(dt, draws, draws2)

SpecTwin == InitTwin /\ [][NextTwin]_vars

-----------------------------------------------------------------------------
(* SupernovaSimulation: the page's controller *)

\* parseFloat(e.target.value) of the speed slider; its range is set in the
\* page markup and run() passes timeStep * animationSpeed on unchecked
Speeds == {-1, 0, 1, 2}

InitDriver ==
  /\ \E draws \in InitDraws(DriverConfig) : model = NewModel(DriverConfig, draws)
  /\ data = NewData
  /\ threw = FALSE
  /\ calls = <<>>
  /\ ops = 0
  /\ isRunning = FALSE
  /\ animationSpeed = 1
  /\ timers = 0
  /\ twin = [model |-> model, data |-> data]

\* run() with isRunning true: one step, then setTimeout(() => this.run()).
\* A throw in dataManager.update() leaves run() before the setTimeout
run(draws, pending) ==
  /\ ops < MaxOps
  /\ StepBody(timeStep * animationSpeed, draws)
  /\ ops' = ops + 1
  /\ timers' = IF threw' THEN pending ELSE pending + 1

\* click on the play button
toggle ==
  /\ isRunning' = ~isRunning
  /\ IF isRunning'
     THEN /\ timers < MaxTimers
          /\ \E draws \in StepDraws(model) : run(draws, timers)
     ELSE UNCHANGED <<model, data, threw, calls, ops, timers>>
  /\ UNCHANGED <<animationSpeed, twin>>

\* a pending setTimeout callback fires: run()
timerFires ==
  /\ timers > 0
  /\ IF isRunning
     THEN \E draws \in StepDraws(model) : run(draws, timers - 1)
     ELSE /\ timers' = timers - 1
          /\ UNCHANGED <<model, data, threw, calls, ops>>
  /\ UNCHANGED <<isRunning, animationSpeed, twin>>

\* click on the reset button
reset ==
  /\ ops < MaxOps
  /\ isRunning' = FALSE
  /\ \E draws \in InitDraws(DriverConfig) : model' = NewModel(DriverConfig, draws)
  /\ data' = NewData
  /\ threw' = FALSE
  /\ calls' = <<>>
  /\ ops' = ops + 1
  /\ UNCHANGED <<animationSpeed, timers, twin>>

\* input on the speed slider
speedInput(value) ==
  /\ animationSpeed' = value
  /\ UNCHANGED <<model, data, threw, calls, ops, isRunning, timers, twin>>

NextDriver ==
  \/ toggle
  \/ timerFires
  \/ reset
  \/ \E value \in Speeds : speedInput(value)

SpecDriver == InitDriver /\ [][NextDriver]_vars

-----------------------------------------------------------------------------
(* Properties *)

\* sum of hist[lo..hi], NaN as soon as one count is NaN
RECURSIVE FSumRange(_, _, _)
FSumRange(hist, lo, hi) ==
  IF lo > hi THEN 0
  ELSE IF lo = hi THEN hist[lo]
  ELSE LET mid == (lo + hi) \div 2
       IN  FAdd(FSumRange(hist, lo, mid), FSumRange(hist, mid + 1, hi))

FSum(hist) == FSumRange(hist, 1, Len(hist))

\* energy > 0 and density > 0: the configurations the constructor is meant
\* to accept
ValidConfiguration == model.energy > 0 /\ model.density > 0

\* C1: every particle of a validly configured model has 0 <= xi <= 1 and
\* 0 <= phi <= pi, after construction and after any sequence of update(dt)
\* calls
XiPhiInRange ==
  ValidConfiguration =>
    \A i \in 1..Len(model.particles) :
      /\ model.particles[i].xi \in 0..XiScale
      /\ model.particles[i].phi \in 0..PiU

\* C2: after a DataManager.update() that ran to completion on a validly
\* configured model the angular histogram has exactly 36 bins and their
\* counts sum to the particle count
AngularHistogramComplete ==
  (ValidConfiguration /\ calls # <<>> /\ ~threw) =>
    /\ Len(data.angularDist) = AngularBins
    /\ FSum(data.angularDist) = Len(model.particles)

\* C3: after every DataManager.update() on a validly configured model the
\* radial histogram has exactly 50 bins and their counts sum to the particle
\* count
RadialHistogramComplete ==
  (ValidConfiguration /\ calls # <<>>) =>
    /\ Len(data.radialDist) = RadialBins
    /\ FSum(data.radialDist) = Len(model.particles)

\* C4: on a validly configured model the time series never exceeds
\* maxHistory, every DataManager.update() call appends one sample at the end,
\* the retained samples are the most recent calls in order, and the oldest
\* retained sample is strictly later in time than every evicted one
TimeSeriesFifo ==
  LET ts == data.timeSeries
      evictedCount == Len(calls) - Len(ts)
  IN  ValidConfiguration =>
      /\ Len(ts) <= maxHistory
      /\ Len(ts) = Min(Len(calls), maxHistory)
      /\ \A i \in 1..Len(ts) : ts[i].time = calls[evictedCount + i]
      /\ \A j \in 1..evictedCount : ts # <<>> /\ ts[1].time > calls[j]

\* C5: no model with a non-positive energy or density and a populated
\* ensemble exists
NoInvalidModel ==
  ~((model.energy <= 0 \/ model.density <= 0) /\ Len(model.particles) > 0)

\* C6: at time 0 getState() returns radius 0, velocity 0 and temperature 0
DegenerateStateGuarded ==
  model.time = 0 =>
    LET state == getState(model)
    IN  state.radius = 0 /\ state.velocity = 0 /\ state.temperature = 0

\* C7: on a validly configured model a step with dt <= 0 (the time does not
\* advance) runs update(dt) and DataManager.update() to completion without
\* throwing
NonPositiveDtDoesNotThrow ==
  [][(ValidConfiguration /\ calls' = Append(calls, model'.time) /\ model'.time <= model.time)
       => ~threw']_vars

\* C8: two runs with the same configuration and the same dt sequence have
\* identical particles, histograms and time series after every step
RunsIdentical == twin.model = model /\ twin.data = data

Identities(m) == [i \in 1..Len(m.particles) |-> <<m.particles[i].id, m.particles[i].element>>]

EnsembleShape ==
  LET ps == model.particles
      es == model.elements
  IN  /\ Len(ps) = SumParticles(es, 1)
      /\ \A i, j \in 1..Len(ps) : i # j => ps[i].id # ps[j].id
      /\ \A k \in 1..Len(es) :
           Cardinality({i \in 1..Len(ps) : ps[i].element = es[k].name})
             = (totalParticles * es[k].massFrac) \div MassFracScale
      /\ LET half == [name |-> "Fe", massFrac |-> MassFracScale \div 2]
         IN  2 * half.massFrac = MassFracScale => SumParticles(<<half, half>>, 1) = totalParticles

\* C9: the ensemble holds the sum over species of floor(2000 * massFrac)
\* particles with pairwise distinct ids, each species owning its share, and
\* no step adds, removes or relabels a particle
EnsembleFixed ==
  /\ []EnsembleShape
  /\ [][calls' # <<>> => Identities(model') = Identities(model)]_vars

EnsembleFixedWitness ==
  /\ Len(calls) >= 2
  /\ ~threw
  /\ Len(model.elements) = 3
  /\ Len(model.particles) = 3
  /\ model.particles[1].element = "Fe"
  /\ model.particles[3].element = "C"

\* the time series has reached its cap and evicted samples
HistoryEvicted == Len(calls) > maxHistory /\ Len(data.timeSeries) = maxHistory

\* C10: while the simulation runs there is never more than one pending
\* setTimeout callback, so only one loop steps the model
SingleRunLoop == isRunning => timers <= 1

====
